---- MODULE Spec2Model ----
(***************************************************************************)
(* AttachStep (react-native-spotlight-tour): the wrapper component that    *)
(* binds a measurement reference to its child, and whose effect measures   *)
(* the child and reports the spot to the tour controller when the wrapper  *)
(* is the active step.                                                     *)
(*                                                                         *)
(* Source: src/package/src/lib/components/attach-step/                     *)
(*         AttachStep.component.tsx                                        *)
(***************************************************************************)
EXTENDS Integers, Sequences, FiniteSets, TLC

(***************************************************************************)
(* Bounds of the model.                                                    *)
(***************************************************************************)
\* measureInWindow requests issued in one behaviour (all wrappers together)
MaxRequests == 2
\* not-active -> active transitions counted per wrapper
MaxActivations == 2
\* largest step number drawn for the membership checker's inputs
MaxStep == 3
\* longest index array drawn for the membership checker's inputs
MaxLen == 2

(***************************************************************************)
(* Decimal digits of a natural number.                                     *)
(***************************************************************************)
Digit == <<"0", "1", "2", "3", "4", "5", "6", "7", "8", "9">>

RECURSIVE NatToString(_)
NatToString(n) ==
  IF n < 10 THEN Digit[n + 1] ELSE NatToString(n \div 10) \o Digit[(n % 10) + 1]

(***************************************************************************)
(* JavaScript values.  An optional number or handle is a tuple: <<>> is    *)
(* undefined (or null), <<v>> is the value v.  A property value is the     *)
(* pair of its type and its content.  An object is a function from its     *)
(* own keys.                                                               *)
(***************************************************************************)
Undefined == <<>>
Some(v) == <<v>>
EmptyObject == [k \in {} |-> ""]

JSUndefined == <<"undefined", "">>
JSNull == <<"null", "">>
JSString(s) == <<"string", s>>
JSBoolean(b) == <<"boolean", b>>
\* a plain object, v its own keys and values
JSObject(o) == <<"object", o>>
\* an array, v the sequence of its items
JSArray(s) == <<"array", s>>
\* a number, v as written
JSNumber(n) == <<"number", n>>
\* a React element
JSElement(e) == <<"element", e>>

\* { ...a, ...b } of two objects: the keys of both, b's value on a key of both
Spread(a, b) ==
  [k \in DOMAIN a \cup DOMAIN b |-> IF k \in DOMAIN b THEN b[k] ELSE a[k]]

\* const { key, ...rest } = obj: every own key of obj but key
Rest(obj, key) == [k \in DOMAIN obj \ {key} |-> obj[k]]

\* obj[key], undefined when obj has no such key
Get(obj, key) == IF key \in DOMAIN obj THEN obj[key] ELSE JSUndefined

\* the own enumerable properties of a value, as { ...value } copies them:
\* an object's keys, an array's indices, nothing of a number, null or undefined
OwnProperties(value) ==
  IF value[1] = "object" THEN value[2]
  ELSE IF value[1] = "array"
    THEN [k \in {NatToString(i - 1) : i \in 1..Len(value[2])} |->
            value[2][CHOOSE i \in 1..Len(value[2]) : NatToString(i - 1) = k]]
  ELSE EmptyObject

(***************************************************************************)
(* AttachStepProps.index: number | Array<number>, the pair of which of     *)
(* the two it is and the number or the sequence of numbers.                *)
(***************************************************************************)
NumberIndex(n) == <<"number", n>>
ArrayIndex(s) == <<"array", s>>

\* Array.isArray(index)
IsArray(index) == index[1] = "array"

NumberToString_DropsSign(n) == IF n < 0 THEN NatToString(-n) ELSE NatToString(n)

\* Number.prototype.toString() of an integer
NumberToString(n) == IF n < 0 THEN "-" \o NatToString(-n) ELSE NatToString(n)

\* Array.prototype.join(",") of an array of integers
RECURSIVE Join(_)
Join(s) ==
  IF Len(s) = 0 THEN ""
  ELSE IF Len(s) = 1 THEN NumberToString(s[1])
  ELSE NumberToString(s[1]) \o "," \o Join(Tail(s))

IndexToString_Sorted(index) ==
  IF IsArray(index)
    THEN Join(SortSeq(index[2], LAMBDA a, b : a < b))
    ELSE NumberToString(index[2])

\* index.toString(), the third key of the effect
IndexToString(index) ==
  IF IsArray(index) THEN Join(index[2]) ELSE NumberToString(index[2])

Includes_FirstOnly(s, n) == Len(s) > 0 /\ Head(s) = n

\* Array.prototype.includes: the elements are compared one by one, in order
RECURSIVE Includes(_, _)
Includes(s, n) ==
  IF Len(s) = 0 THEN FALSE
  ELSE IF Head(s) = n THEN TRUE
  ELSE Includes(Tail(s), n)

checkIndex_UndefinedMatches(index, current) ==
  IF current = Undefined THEN TRUE
  ELSE IF IsArray(index) THEN Includes(index[2], current[1])
  ELSE current[1] = index[2]

checkIndex_AtLeast(index, current) ==
  IF current = Undefined THEN FALSE
  ELSE IF IsArray(index) THEN Includes(index[2], current[1])
  ELSE current[1] >= index[2]

\* checkIndex(index, current)
checkIndex(index, current) ==
  IF current = Undefined THEN FALSE
  ELSE IF IsArray(index) THEN Includes(index[2], current[1])
  ELSE current[1] = index[2]

(***************************************************************************)
(* React elements.  An element is its type, key, ref and props; key and    *)
(* ref are not props.                                                      *)
(***************************************************************************)
\* the reference a caller may have put on the child itself
CallerRef == "callerRef"
\* a reference object, as the value of a ref property
JSRef(handle) == <<"ref", handle>>

\* what children.type may be: a function component, a class component, a
\* native (host) component, a React.forwardRef component that passes its ref
\* to a native component, a React.memo component (which takes no ref)
ElementTypes ==
  {"FunctionComponent", "ClassComponent", "HostComponent", "ForwardRef", "Memo"}

\* typeof type
TypeOf(type) ==
  IF type \in {"FunctionComponent", "ClassComponent"} THEN "function"
  ELSE IF type = "HostComponent" THEN "string"
  ELSE "object"

\* the names React.cloneElement never copies from config into props
ReservedProps == {"key", "ref"}

\* React.cloneElement(element, config, child): the element's props, config's
\* own properties over them, props.children set to child; key and ref are
\* the element's unless config gives one
cloneElement(element, config, child) ==
  [type |-> element.type,
   key |-> IF Get(config, "key") # JSUndefined
             THEN Some(Get(config, "key")[2]) ELSE element.key,
   ref |-> IF Get(config, "ref") # JSUndefined
             THEN Some(Get(config, "ref")[2]) ELSE element.ref,
   props |-> Spread(Spread(element.props,
                           [k \in DOMAIN config \ ReservedProps |-> config[k]]),
                    [k \in {"children"} |-> child])]

\* <View testID ref style collapsable focusable>{child}</View>
WrapperView(childRef, style, child) ==
  [type |-> "View",
   key |-> Undefined,
   ref |-> Some(childRef),
   props |-> [testID |-> JSString("attach-wrapper-view"),
              style |-> style,
              collapsable |-> JSBoolean(FALSE),
              focusable |-> JSBoolean(FALSE),
              children |-> JSElement(child)]]

\* style ?? { }
ChildStyle(style) ==
  IF style[1] \in {"undefined", "null"} THEN JSObject(EmptyObject) ELSE style

\* { alignSelf: fill ? "stretch" : "flex-start", ...childStyle }
WrapperStyle(fill, childStyle) ==
  JSObject(Spread([k \in {"alignSelf"} |->
                     JSString(IF fill THEN "stretch" ELSE "flex-start")],
                  OwnProperties(childStyle)))

Render_WrapAlways(children, fill, childRef) ==
  WrapperView(childRef,
              WrapperStyle(fill, ChildStyle(Get(children.props, "style"))),
              cloneElement(children, Rest(children.props, "style"),
                           Get(children.props, "children")))

Render_FillStretchesClone(children, fill, childRef) ==
  IF TypeOf(children.type) = "function"
    THEN WrapperView(childRef,
                     WrapperStyle(fill, ChildStyle(Get(children.props, "style"))),
                     cloneElement(children, Rest(children.props, "style"),
                                  Get(children.props, "children")))
    ELSE cloneElement(children,
                      Spread(Spread(children.props,
                                    [k \in {"ref"} |-> JSRef(childRef)]),
                             [k \in {"alignSelf"} |->
                                JSString(IF fill THEN "stretch" ELSE "flex-start")]),
                      Get(children.props, "children"))

\* what AttachStep returns for its props, childRef the reference it holds
Render(children, fill, childRef) ==
  IF TypeOf(children.type) = "function"
    THEN LET style == Get(children.props, "style")
             rest == Rest(children.props, "style")
             childStyle == ChildStyle(style)
         IN  WrapperView(childRef,
                         WrapperStyle(fill, childStyle),
                         cloneElement(children, rest,
                                      Get(children.props, "children")))
    ELSE cloneElement(children,
                      Spread(children.props,
                             [k \in {"ref"} |-> JSRef(childRef)]),
                      Get(children.props, "children"))

(***************************************************************************)
(* The state: the tour controller's context, each wrapper's props and      *)
(* hooks, the rendering engine's measurements in flight, and the calls     *)
(* the controller has received.                                            *)
(***************************************************************************)
VARIABLES
  instances,    \* the AttachStep wrappers of the application
  current,      \* SpotlightTourContext.current: the active step, if any
  changeSpot,   \* SpotlightTourContext.changeSpot: the callback's identity
  index,        \* per wrapper: the index prop
  children,     \* per wrapper: the children prop, one element
  fill,         \* per wrapper: the fill prop
  lifecycle,    \* per wrapper: "initial", "mounted" or "unmounted"
  tree,         \* per wrapper: the element tree last rendered, if any
  childRef,     \* per wrapper: childRef.current, the bound node or null
  deps,         \* per wrapper: the keys the effect last ran with
  requests,     \* every measureInWindow request issued, in order
  pending,      \* the ids of the requests still in flight
  completions,  \* the values the engine completed each request with, in order
  spotCalls,    \* every call of changeSpot, in order
  activations,  \* per wrapper: its not-active -> active transitions so far
  thrown        \* whether an effect raised an error

vars ==
  <<instances, current, changeSpot, index, children, fill, lifecycle, tree,
    childRef, deps, requests, pending, completions, spotCalls, activations,
    thrown>>

Wrappers == {"w1", "w2"}
\* the order in which one commit runs the effects of the wrappers
WrapperOrder == <<"w1", "w2">>

\* childRef, the reference object useRef gives a wrapper
ChildRefOf(w) == "childRef:" \o w

\* childRef.current === null
NoNode == <<>>

\* the identities the controller's changeSpot callback may take
Callbacks == {"changeSpot#1", "changeSpot#2"}

\* the values of current the tour moves through
Steps == {Undefined, Some(1), Some(2), Some(4)}

\* the index props the wrappers are given
Indexes ==
  {NumberIndex(2), ArrayIndex(<<1, 2>>), ArrayIndex(<<2, 1>>),
   ArrayIndex(<<1, 2, 3>>)}

\* an element of the given type with the given props, no key and no ref
Element(type, props) ==
  [type |-> type, key |-> Undefined, ref |-> Undefined, props |-> props]

\* the children the wrappers are given: a composite child with a style, a
\* native child, and a child that takes no reference
Elements ==
  {Element("FunctionComponent",
           [style |-> JSObject([margin |-> JSNumber(8)]),
            title |-> JSString("a")]),
   Element("HostComponent", [title |-> JSString("a")]),
   Element("Memo", [title |-> JSString("a")])}

\* the fill props a wrapper is given with child ch: fill is read for a
\* composite child only
Fills(ch) == IF TypeOf(ch.type) = "function" THEN BOOLEAN ELSE {FALSE}

\* the pairs of children and fill props: these, and any fill with any child
WithFills(els) == {p \in els \X BOOLEAN : p[2] \in Fills(p[1])}

WithAnyFill(els) == els \X BOOLEAN

\* the geometry the engine reports: x, y, width, height
Rects == {<<10, 20, 100, 50>>}

(***************************************************************************)
(* The effect and its keys.                                                *)
(***************************************************************************)
\* the dependency array [changeSpot, current, index.toString()]
EffectDeps(cb, cur, idx) == <<cb, cur, IndexToString(idx)>>

DepsChanged_Always(prev, next) == TRUE

DepsChanged_IgnoresCurrent(prev, next) ==
  prev = <<>> \/ \E i \in {1, 3} : prev[i] # next[i]

DepsChanged_WhenActive(prev, next) ==
  prev = <<>> \/ next[2] # Undefined \/ \E i \in 1..3 : prev[i] # next[i]

\* whether useEffect runs the effect again: on mount (no previous keys),
\* or when some key differs from the one of the previous run
DepsChanged(prev, next) ==
  prev = <<>> \/ \E i \in 1..3 : prev[i] # next[i]

EffectBody_NoActiveCheck(idx, cur, ref) ==
  IF ref # NoNode THEN "measure" ELSE "skip"

EffectBody_NoNullCheck(idx, cur, ref) ==
  IF checkIndex(idx, cur)
    THEN IF ref # NoNode THEN "measure" ELSE "throw"
    ELSE "inactive"

\* one run of the effect: "measure" when it calls measureInWindow,
\* "skip" when childRef.current?. short-circuits, "inactive" otherwise
EffectBody(idx, cur, ref) ==
  IF checkIndex(idx, cur)
    THEN IF ref # NoNode THEN "measure" ELSE "skip"
    ELSE "inactive"

MeasureCallback_SwapsSize(x, y, width, height) ==
  [height |-> width, width |-> height, x |-> x, y |-> y]

\* the callback given to measureInWindow: the snapshot it hands to changeSpot
MeasureCallback(x, y, width, height) ==
  [height |-> height, width |-> width, x |-> x, y |-> y]

\* the node React binds to the reference of the rendered tree's root: the
\* injected View, a native child or a forwardRef child have one; a child
\* that takes no reference leaves childRef.current null
BoundNode(w, root) ==
  IF root.ref = Some(ChildRefOf(w))
     /\ root.type \in {"View", "HostComponent", "ForwardRef"}
    THEN Some(<<w, root.type>>)
    ELSE NoNode

(***************************************************************************)
(* Initial states: the application holds its wrappers, none rendered yet.  *)
(***************************************************************************)
InitWith(inst, steps, idxs, props) ==
  /\ instances = inst
  /\ current \in steps
  /\ changeSpot = "changeSpot#1"
  /\ \E i \in idxs :
       index = [w \in Wrappers |-> IF w \in inst THEN i ELSE NumberIndex(0)]
  /\ \E p \in props :
       /\ children = [w \in Wrappers |->
                        IF w \in inst THEN p[1]
                        ELSE Element("HostComponent", EmptyObject)]
       /\ fill = [w \in Wrappers |-> w \in inst /\ p[2]]
  /\ lifecycle = [w \in Wrappers |-> "initial"]
  /\ tree = [w \in Wrappers |-> Undefined]
  /\ childRef = [w \in Wrappers |-> NoNode]
  /\ deps = [w \in Wrappers |-> <<>>]
  /\ requests = <<>>
  /\ pending = {}
  /\ completions = <<>>
  /\ spotCalls = <<>>
  /\ activations = [w \in Wrappers |-> 0]
  /\ thrown = FALSE

Init == InitWith({"w1"}, Steps, Indexes, WithFills(Elements))

(***************************************************************************)
(* One commit of React: the context is (cur, cb), the wrappers have the    *)
(* lifecycle life and the props idx, ch, fl.  Every mounted wrapper is     *)
(* rendered, its reference bound, and then its effect run if its keys      *)
(* changed.                                                                *)
(***************************************************************************)
Commit(cur, cb, life, idx, ch, fl) ==
  LET rendered == {w \in Wrappers : life[w] = "mounted"}
      root == [w \in rendered |-> Render(ch[w], fl[w], ChildRefOf(w))]
      node == [w \in rendered |-> BoundNode(w, root[w])]
      keys == [w \in rendered |-> EffectDeps(cb, cur, idx[w])]
      runs == {w \in rendered : DepsChanged(deps[w], keys[w])}
      outcome == [w \in runs |-> EffectBody(idx[w], cur, node[w])]
      measuring ==
        SelectSeq(WrapperOrder,
                  LAMBDA w : w \in runs /\ outcome[w] = "measure")
      issued ==
        [k \in 1..Len(measuring) |->
          [id |-> Len(requests) + k, w |-> measuring[k], cb |-> cb]]
      activated ==
        {w \in rendered :
           /\ checkIndex(idx[w], cur)
           /\ ~(lifecycle[w] = "mounted" /\ checkIndex(index[w], current))}
  IN  /\ Len(requests) + Len(issued) <= MaxRequests
      /\ \A w \in activated : activations[w] < MaxActivations
      /\ current' = cur
      /\ changeSpot' = cb
      /\ lifecycle' = life
      /\ index' = idx
      /\ children' = ch
      /\ fill' = fl
      /\ tree' = [w \in Wrappers |->
                    IF w \in rendered THEN Some(root[w]) ELSE tree[w]]
      /\ childRef' = [w \in Wrappers |->
                        IF w \in rendered THEN node[w] ELSE childRef[w]]
      /\ deps' = [w \in Wrappers |-> IF w \in runs THEN keys[w] ELSE deps[w]]
      /\ requests' = requests \o issued
      /\ pending' = pending \cup {issued[k].id : k \in 1..Len(issued)}
      /\ activations' = [w \in Wrappers |->
                           IF w \in activated THEN activations[w] + 1
                           ELSE activations[w]]
      /\ thrown' = (thrown \/ \E w \in runs : outcome[w] = "throw")
      /\ UNCHANGED <<instances, completions, spotCalls>>

\* the first render of wrapper w
Mount(w) ==
  /\ w \in instances
  /\ lifecycle[w] = "initial"
  /\ Commit(current, changeSpot, [lifecycle EXCEPT ![w] = "mounted"],
            index, children, fill)

\* the controller changes the active step, its changeSpot callback or both:
\* every mounted wrapper reads the context and renders again
ContextChange(cur, cb) ==
  /\ \E w \in Wrappers : lifecycle[w] = "mounted"
  /\ <<cur, cb>> # <<current, changeSpot>>
  /\ Commit(cur, cb, lifecycle, index, children, fill)

\* the parent renders mounted wrapper w with other props
PropsChange(w, idx, ch, fl) ==
  /\ lifecycle[w] = "mounted"
  /\ <<idx, ch, fl>> # <<index[w], children[w], fill[w]>>
  /\ Commit(current, changeSpot, lifecycle, [index EXCEPT ![w] = idx],
            [children EXCEPT ![w] = ch], [fill EXCEPT ![w] = fl])

\* wrapper w is removed: React clears its reference; the effect has no
\* cleanup, so the requests it issued stay in flight
Unmount(w) ==
  /\ lifecycle[w] = "mounted"
  /\ lifecycle' = [lifecycle EXCEPT ![w] = "unmounted"]
  /\ childRef' = [childRef EXCEPT ![w] = NoNode]
  /\ tree' = [tree EXCEPT ![w] = Undefined]
  /\ UNCHANGED <<instances, current, changeSpot, index, children, fill, deps,
                 requests, pending, completions, spotCalls, activations,
                 thrown>>

MeasureComplete_DropsCallback(id, rect) ==
  /\ id \in pending
  /\ pending' = pending \ {id}
  /\ completions' = Append(completions, [id |-> id, rect |-> rect])
  /\ UNCHANGED <<instances, current, changeSpot, index, children, fill,
                 lifecycle, tree, childRef, deps, requests, spotCalls,
                 activations, thrown>>

MeasureComplete_ChecksActive(id, rect) ==
  /\ id \in pending
  /\ pending' = pending \ {id}
  /\ completions' = Append(completions, [id |-> id, rect |-> rect])
  /\ spotCalls' =
       IF checkIndex(index[requests[id].w], current)
         THEN Append(spotCalls,
                     [cb |-> requests[id].cb, req |-> id,
                      spot |-> [height |-> rect[4], width |-> rect[3],
                                x |-> rect[1], y |-> rect[2]]])
         ELSE spotCalls
  /\ UNCHANGED <<instances, current, changeSpot, index, children, fill,
                 lifecycle, tree, childRef, deps, requests, activations,
                 thrown>>

\* the engine completes request id with a geometry: it calls the callback
\* given to measureInWindow, which calls the changeSpot it closed over
MeasureComplete(id, rect) ==
  /\ id \in pending
  /\ pending' = pending \ {id}
  /\ completions' = Append(completions, [id |-> id, rect |-> rect])
  /\ spotCalls' =
       Append(spotCalls,
              [cb |-> requests[id].cb, req |-> id,
               spot |-> MeasureCallback(rect[1], rect[2], rect[3], rect[4])])
  /\ UNCHANGED <<instances, current, changeSpot, index, children, fill,
                 lifecycle, tree, childRef, deps, requests, activations,
                 thrown>>

\* a context change and a change of props are separate commits
Next ==
  \/ \E w \in Wrappers : Mount(w)
  \/ \E cur \in Steps, cb \in Callbacks : ContextChange(cur, cb)
  \/ \E w \in Wrappers, idx \in Indexes, ch \in Elements :
       \E fl \in Fills(ch) : PropsChange(w, idx, ch, fl)
  \/ \E w \in Wrappers : Unmount(w)
  \/ \E id \in 1..MaxRequests, rect \in Rects : MeasureComplete(id, rect)

Spec == Init /\ [][Next]_vars

(***************************************************************************)
(* The membership checker alone: a wrapper with a native child is mounted  *)
(* with any index under any active step, negative and out-of-range         *)
(* numbers, duplicates and the empty array included.                       *)
(***************************************************************************)
WideNumbers == -1..MaxStep

RECURSIVE ArraysUpTo(_)
ArraysUpTo(n) ==
  IF n = 0 THEN {<<>>}
  ELSE ArraysUpTo(n - 1)
       \cup {Append(s, x) : s \in {t \in ArraysUpTo(n - 1) : Len(t) = n - 1},
                            x \in WideNumbers}

WideSteps == {Undefined} \cup {Some(n) : n \in WideNumbers}

WideIndexes ==
  {NumberIndex(n) : n \in WideNumbers}
  \cup {ArrayIndex(s) : s \in ArraysUpTo(MaxLen)}

InitCheckIndex ==
  InitWith({"w1"}, WideSteps, WideIndexes,
           WithFills({Element("HostComponent", [title |-> JSString("a")])}))

NextCheckIndex == \E w \in Wrappers : Mount(w)

SpecCheckIndex == InitCheckIndex /\ [][NextCheckIndex]_vars

(***************************************************************************)
(* The membership checker and the effect's key: a wrapper is mounted with  *)
(* any index under any active step, and its parent then gives it other     *)
(* indexes of the same string form.                                        *)
(***************************************************************************)
AliasChange(w, idx) ==
  /\ IndexToString(idx) = IndexToString(index[w])
  /\ PropsChange(w, idx, children[w], fill[w])

NextAlias ==
  \/ \E w \in Wrappers : Mount(w)
  \/ \E w \in Wrappers, idx \in WideIndexes : AliasChange(w, idx)

SpecAlias == InitCheckIndex /\ [][NextAlias]_vars

(***************************************************************************)
(* The measurement alone: a wrapper with index 1 around a native child,    *)
(* the tour at step 1 or at none, and an engine that reports any of        *)
(* several geometries.                                                     *)
(***************************************************************************)
WideRects == {<<10, 20, 100, 50>>, <<0, 5, 30, 40>>}

MeasureSteps == {Undefined, Some(1)}

InitMeasure ==
  InitWith({"w1"}, MeasureSteps, {NumberIndex(1)},
           WithFills({Element("HostComponent", [title |-> JSString("a")])}))

NextMeasure ==
  \/ \E w \in Wrappers : Mount(w)
  \/ \E cur \in MeasureSteps, cb \in Callbacks : ContextChange(cur, cb)
  \/ \E w \in Wrappers : Unmount(w)
  \/ \E id \in 1..MaxRequests, rect \in WideRects : MeasureComplete(id, rect)

SpecMeasure == InitMeasure /\ [][NextMeasure]_vars

\* the engine fires the callback of every measureInWindow call
EngineFairness ==
  \A id \in 1..MaxRequests :
    WF_vars(\E rect \in WideRects : MeasureComplete(id, rect))

SpecMeasureFair == SpecMeasure /\ EngineFairness

(***************************************************************************)
(* Two wrappers of one tour: index 1 and index 2, each around a native     *)
(* child, the tour moving between no step, step 1 and step 2.              *)
(***************************************************************************)
TourSteps == {Undefined, Some(1), Some(2)}

InitTour ==
  /\ instances = Wrappers
  /\ current \in TourSteps
  /\ changeSpot = "changeSpot#1"
  /\ index = [w \in Wrappers |->
                IF w = "w1" THEN NumberIndex(1) ELSE NumberIndex(2)]
  /\ children = [w \in Wrappers |->
                   Element("HostComponent", [title |-> JSString(w)])]
  /\ fill = [w \in Wrappers |-> FALSE]
  /\ lifecycle = [w \in Wrappers |-> "initial"]
  /\ tree = [w \in Wrappers |-> Undefined]
  /\ childRef = [w \in Wrappers |-> NoNode]
  /\ deps = [w \in Wrappers |-> <<>>]
  /\ requests = <<>>
  /\ pending = {}
  /\ completions = <<>>
  /\ spotCalls = <<>>
  /\ activations = [w \in Wrappers |-> 0]
  /\ thrown = FALSE

NextTour ==
  \/ \E w \in Wrappers : Mount(w)
  \/ \E cur \in TourSteps : ContextChange(cur, changeSpot)
  \/ \E w \in Wrappers : Unmount(w)
  \/ \E id \in 1..MaxRequests, rect \in Rects : MeasureComplete(id, rect)

SpecTour == InitTour /\ [][NextTour]_vars

(***************************************************************************)
(* One wrapper whose parent reorders its index array: the tour stays at    *)
(* step 1 with one changeSpot, the index is [1, 2] or [2, 1].              *)
(***************************************************************************)
Reorderings == {ArrayIndex(<<1, 2>>), ArrayIndex(<<2, 1>>)}

InitReorder == InitWith({"w1"}, {Some(1)}, Reorderings, WithFills(Elements))

NextReorder ==
  \/ \E w \in Wrappers : Mount(w)
  \/ \E w \in Wrappers, idx \in Reorderings, ch \in Elements :
       \E fl \in Fills(ch) : PropsChange(w, idx, ch, fl)
  \/ \E w \in Wrappers : Unmount(w)
  \/ \E id \in 1..MaxRequests, rect \in Rects : MeasureComplete(id, rect)

SpecReorder == InitReorder /\ [][NextReorder]_vars

(***************************************************************************)
(* The render alone: a wrapper is mounted with any child.                  *)
(***************************************************************************)
\* the style props a child may carry: none, undefined, null, an object
\* (empty, with and without alignSelf), an array of objects, a number
\* (a registered style)
StyleValues ==
  {JSUndefined, JSNull, JSObject(EmptyObject),
   JSObject([margin |-> JSNumber(8)]),
   JSObject([alignSelf |-> JSString("center")]),
   JSObject([alignSelf |-> JSString("center"), margin |-> JSNumber(8)]),
   JSArray(<<[margin |-> JSNumber(8)]>>),
   JSNumber(7)}

\* the props a child may carry: style, children and title, each or none
AllProps ==
  {Spread(Spread(st, ch), ti) :
     st \in {EmptyObject} \cup {[k \in {"style"} |-> v] : v \in StyleValues},
     ch \in {EmptyObject, [k \in {"children"} |-> JSString("text")]},
     ti \in {EmptyObject, [k \in {"title"} |-> JSString("a")]}}

AllElements ==
  {[type |-> t, key |-> k, ref |-> r, props |-> p] :
     t \in ElementTypes, k \in {Undefined, Some("k")},
     r \in {Undefined, Some(CallerRef)}, p \in AllProps}

InitRender ==
  InitWith({"w1"}, {Some(2), Some(3)}, {ArrayIndex(<<2>>), NumberIndex(3)},
           WithAnyFill(AllElements))

NextRender == \E w \in Wrappers : Mount(w)

SpecRender == InitRender /\ [][NextRender]_vars

(***************************************************************************)
(* Properties.                                                             *)
(***************************************************************************)
\* the number of requests wrapper w issued among reqs
CountOf(reqs, w) == Cardinality({k \in 1..Len(reqs) : reqs[k].w = w})

\* this step evaluates the effect of wrapper w: useEffect stores new keys
EffectEvaluated(w) == deps'[w] # deps[w]

\* C1: an evaluation of the effect while the wrapper is not the active step
\* (checkIndex(index, current) is false) issues no measureInWindow request
\* for it, calls changeSpot not at all and leaves the calls made so far, the
\* last reported spot among them, as they were.
C1_InactiveEvaluationDoesNothing ==
  [][\A w \in Wrappers :
       (EffectEvaluated(w) /\ ~checkIndex(index'[w], current'))
         => /\ CountOf(requests', w) = CountOf(requests, w)
            /\ spotCalls' = spotCalls]_vars

\* C1 happens: a composite child with index [1, 2, 3] is mounted under
\* current = 4, nothing was requested for it and an earlier spot stands.
C1_Witness ==
  /\ lifecycle["w1"] = "mounted"
  /\ current = Some(4)
  /\ index["w1"] = ArrayIndex(<<1, 2, 3>>)
  /\ children["w1"].type = "FunctionComponent"
  /\ deps["w1"] = EffectDeps(changeSpot, current, index["w1"])
  /\ Len(spotCalls) = 1
  /\ Len(requests) = 1

\* C2: every request the engine has completed with (x, y, width, height)
\* has exactly one changeSpot call, whose snapshot carries exactly these
\* four values, each in its own field; a request in flight has none.
C2_SnapshotForwardedOnce ==
  /\ \A k \in 1..Len(completions) :
       LET c == completions[k]
           calls == {j \in 1..Len(spotCalls) : spotCalls[j].req = c.id}
       IN  /\ Cardinality(calls) = 1
           /\ \A j \in calls :
                /\ DOMAIN spotCalls[j].spot = {"x", "y", "width", "height"}
                /\ spotCalls[j].spot.x = c.rect[1]
                /\ spotCalls[j].spot.y = c.rect[2]
                /\ spotCalls[j].spot.width = c.rect[3]
                /\ spotCalls[j].spot.height = c.rect[4]
  /\ \A id \in pending : \A j \in 1..Len(spotCalls) : spotCalls[j].req # id
  /\ Len(spotCalls) = Len(completions)

\* C2 happens: with current = 1 and index = 1 the engine answered
\* {x: 10, y: 20, width: 100, height: 50} and changeSpot got it, once.
C2_Witness ==
  /\ current = Some(1)
  /\ index["w1"] = NumberIndex(1)
  /\ Len(requests) = 1
  /\ completions = <<[id |-> 1, rect |-> <<10, 20, 100, 50>>]>>
  /\ Len(spotCalls) = 1
  /\ spotCalls[1].spot = [x |-> 10, y |-> 20, width |-> 100, height |-> 50]

\* C3: for a wrapper that stays mounted with the same scalar index i and a
\* resolved reference, a step that changes current from another value to i
\* issues exactly one request for it, and a step that changes current from
\* i to another value issues none.
C3_ScalarActivationMeasuresOnce ==
  [][\A w \in Wrappers :
       (/\ lifecycle[w] = "mounted" /\ lifecycle'[w] = "mounted"
        /\ ~IsArray(index[w]) /\ index'[w] = index[w]
        /\ childRef[w] # NoNode /\ childRef'[w] # NoNode)
         => /\ (current # Some(index[w][2]) /\ current' = Some(index[w][2]))
                 => CountOf(requests', w) = CountOf(requests, w) + 1
            /\ (current = Some(index[w][2]) /\ current' # Some(index[w][2]))
                 => CountOf(requests', w) = CountOf(requests, w)]_vars

\* C3 happens: index = 2, the wrapper was activated twice and current is
\* back at 1, with one request for each activation.
C3_Witness ==
  /\ lifecycle["w1"] = "mounted"
  /\ index["w1"] = NumberIndex(2)
  /\ current = Some(1)
  /\ childRef["w1"] # NoNode
  /\ activations["w1"] = 2
  /\ CountOf(requests, "w1") = 2

\* C4 as claimed: the requests a wrapper issued never exceed its
\* transitions from not-active to active, an active mount counted.
C4_AtMostOneRequestPerActivation ==
  \A w \in Wrappers : CountOf(requests, w) <= activations[w]

\* C4 as amended: a step issues at most one request for a wrapper, and only
\* a step that evaluates the effect with the wrapper active: the wrapper is
\* mounted and active after it, and the step is its mount or changes
\* current, changeSpot or index.toString().
C4_AtMostOneRequestPerActiveEvaluation ==
  [][\A w \in Wrappers :
       /\ CountOf(requests', w) <= CountOf(requests, w) + 1
       /\ CountOf(requests', w) = CountOf(requests, w) + 1
            => /\ lifecycle'[w] = "mounted"
               /\ checkIndex(index'[w], current')
               /\ \/ lifecycle[w] # "mounted"
                  \/ current' # current
                  \/ changeSpot' # changeSpot
                  \/ IndexToString(index'[w]) # IndexToString(index[w])]_vars

\* C4 happens: two requests within one activation of the wrapper.
C4_Witness ==
  /\ lifecycle["w1"] = "mounted"
  /\ activations["w1"] = 1
  /\ CountOf(requests, "w1") = 2

\* C5: an evaluation of the effect while the wrapper is active and
\* childRef.current is null issues no request for it, calls changeSpot not
\* at all, raises no error and leaves the reference null.
C5_UnresolvedReferenceSkipped ==
  [][\A w \in Wrappers :
       (/\ EffectEvaluated(w)
        /\ checkIndex(index'[w], current')
        /\ childRef'[w] = NoNode)
         => /\ CountOf(requests', w) = CountOf(requests, w)
            /\ {id \in pending' : requests'[id].w = w}
                 = {id \in pending : requests[id].w = w}
            /\ spotCalls' = spotCalls
            /\ thrown' = FALSE]_vars

\* C5 happens: an active wrapper is mounted around a child that takes no
\* reference; its effect ran and nothing was requested.
C5_Witness ==
  /\ lifecycle["w1"] = "mounted"
  /\ checkIndex(index["w1"], current)
  /\ childRef["w1"] = NoNode
  /\ deps["w1"] = EffectDeps(changeSpot, current, index["w1"])
  /\ requests = <<>>
  /\ ~thrown

\* C6 as claimed: the completion of a request whose wrapper was unmounted
\* while it was in flight calls changeSpot not at all.
C6_CompletionAfterUnmountIsNoOp ==
  [][\A id \in pending :
       (lifecycle[requests[id].w] = "unmounted" /\ id \notin pending')
         => spotCalls' = spotCalls]_vars

\* the names of the properties of two props objects
PropNames(a, b) == DOMAIN a \cup DOMAIN b

\* C7 as claimed: for a composite child the rendered tree is one injected
\* View holding the measurement reference, and the child beneath it has no
\* style property while its type, key, reference, every other property
\* and its children are the original child's.
C7_CompositeChildStyleStripped ==
  \A w \in Wrappers :
    (lifecycle[w] = "mounted" /\ TypeOf(children[w].type) = "function")
      => LET view == tree[w][1]
             child == Get(view.props, "children")[2]
         IN  /\ view.type = "View"
             /\ view.ref = Some(ChildRefOf(w))
             /\ Get(view.props, "testID") = JSString("attach-wrapper-view")
             /\ Get(view.props, "children")[1] = "element"
             /\ child.type = children[w].type
             /\ child.key = children[w].key
             /\ child.ref = children[w].ref
             /\ "style" \notin DOMAIN child.props
             /\ \A k \in PropNames(child.props, children[w].props) \ {"style"} :
                  Get(child.props, k) = Get(children[w].props, k)

\* C8: for a child whose type is not a function the rendered tree is the
\* child itself, no node added: its type and key, the measurement reference
\* as its reference, and every property, children included, with the
\* original child's value.
C8_PrimitiveChildClonedWithReference ==
  \A w \in Wrappers :
    (lifecycle[w] = "mounted" /\ TypeOf(children[w].type) # "function")
      => LET root == tree[w][1]
         IN  /\ root.type = children[w].type
             /\ root.key = children[w].key
             /\ root.ref = Some(ChildRefOf(w))
             /\ "ref" \notin DOMAIN root.props
             /\ \A k \in PropNames(root.props, children[w].props) :
                  Get(root.props, k) = Get(children[w].props, k)

\* C8 happens: a native child with a style, a title and children, and a
\* reference of its own, is rendered with index 3 under current = 3.
C8_Witness ==
  /\ lifecycle["w1"] = "mounted"
  /\ index["w1"] = NumberIndex(3)
  /\ current = Some(3)
  /\ children["w1"].type = "HostComponent"
  /\ children["w1"].ref = Some(CallerRef)
  /\ DOMAIN children["w1"].props = {"style", "children", "title"}
  /\ tree["w1"][1].props = children["w1"].props
  /\ childRef["w1"] # NoNode

\* C9: when the active step is undefined, checkIndex is false for every
\* index a wrapper is mounted with, a number or an array.
C9_UndefinedStepNeverActive ==
  \A w \in instances :
    (lifecycle[w] = "mounted" /\ current = Undefined)
      => /\ ~checkIndex(index[w], current)
         /\ CountOf(requests, w) = 0

\* C9 happens: a wrapper with a non-empty array index is mounted while no
\* step is active.
C9_Witness ==
  /\ lifecycle["w1"] = "mounted"
  /\ current = Undefined
  /\ IsArray(index["w1"])
  /\ Len(index["w1"][2]) = MaxLen
  /\ requests = <<>>

\* C10: for an index that is a plain integer i and an active step a,
\* negative and out-of-range values included, checkIndex(i, a) is true
\* exactly when a equals i; with no active step it is false.
C10_ScalarIndexActiveIffEqual ==
  \A w \in instances :
    (lifecycle[w] = "mounted" /\ ~IsArray(index[w]))
      => /\ checkIndex(index[w], current) <=> (current = Some(index[w][2]))
         /\ CountOf(requests, w) = (IF current = Some(index[w][2]) THEN 1 ELSE 0)

\* C10 happens: a wrapper with index -1 is mounted under current = -1: it
\* is active and its one request is issued.
C10_Witness ==
  /\ lifecycle["w1"] = "mounted"
  /\ index["w1"] = NumberIndex(-1)
  /\ current = Some(-1)
  /\ Len(requests) = 1

\* the numbers an index array holds, as a set
Members(s) == {s[k] : k \in 1..Len(s)}

\* C11: for an index that is an array of integers, the empty array, any
\* order and duplicates included, and an active step a, checkIndex is true
\* exactly when a is one of the array's elements, and the mounted wrapper
\* has issued its one request exactly then.
C11_ArrayIndexActiveIffMember ==
  \A w \in instances :
    (lifecycle[w] = "mounted" /\ IsArray(index[w]) /\ current # Undefined)
      => /\ checkIndex(index[w], current) <=> current[1] \in Members(index[w][2])
         /\ CountOf(requests, w)
              = (IF current[1] \in Members(index[w][2]) THEN 1 ELSE 0)

\* C11 happens: a wrapper with index [3, 2] is mounted under current = 2,
\* the array's last element: it is active and its one request is issued.
C11_Witness ==
  /\ lifecycle["w1"] = "mounted"
  /\ index["w1"] = ArrayIndex(<<3, 2>>)
  /\ current = Some(2)
  /\ checkIndex(index["w1"], current)
  /\ Len(requests) = 1

\* what a style property means to the View that is given it (StyleProp):
\* an object is its keys, an array is its items merged in order, a later
\* item over an earlier one, null and undefined are no style
RECURSIVE MergeStyles(_)
MergeStyles(items) ==
  IF Len(items) = 0 THEN EmptyObject
  ELSE Spread(Head(items), MergeStyles(Tail(items)))

FlatStyle(style) ==
  IF style[1] = "object" THEN style[2]
  ELSE IF style[1] = "array" THEN MergeStyles(style[2])
  ELSE EmptyObject

\* C12 as claimed: for a composite child whose style is an object, an
\* array of objects, null, undefined or absent, the injected View's style
\* has every key of the child's style with the child's value, alignSelf
\* included, and besides these only alignSelf, "stretch" when fill is
\* true and "flex-start" when it is false.
C12_WrapperStyleMergesChildStyle ==
  \A w \in Wrappers :
    (/\ lifecycle[w] = "mounted"
     /\ TypeOf(children[w].type) = "function"
     /\ Get(children[w].props, "style")[1] # "number")
      => LET wrapperStyle == Get(tree[w][1].props, "style")
             childStyle == FlatStyle(Get(children[w].props, "style"))
         IN  /\ wrapperStyle[1] = "object"
             /\ DOMAIN wrapperStyle[2] = DOMAIN childStyle \cup {"alignSelf"}
             /\ \A k \in DOMAIN childStyle : wrapperStyle[2][k] = childStyle[k]
             /\ "alignSelf" \notin DOMAIN childStyle
                  => wrapperStyle[2]["alignSelf"]
                       = JSString(IF fill[w] THEN "stretch" ELSE "flex-start")

\* C13: for a child whose type is not a function (a native component, a
\* forwardRef or a memo component) the rendered tree and the node bound to
\* the reference are the ones the other value of fill gives.
C13_FillIgnoredForPrimitiveChild ==
  \A w \in Wrappers :
    (lifecycle[w] = "mounted" /\ TypeOf(children[w].type) # "function")
      => /\ tree[w] = Some(Render(children[w], ~fill[w], ChildRefOf(w)))
         /\ childRef[w]
              = BoundNode(w, Render(children[w], ~fill[w], ChildRefOf(w)))

\* C13 happens: a forwardRef child with a style is rendered with fill true.
C13_Witness ==
  /\ lifecycle["w1"] = "mounted"
  /\ children["w1"].type = "ForwardRef"
  /\ "style" \in DOMAIN children["w1"].props
  /\ fill["w1"]
  /\ tree["w1"] # Undefined
  /\ childRef["w1"] # NoNode

\* C14: a render of a wrapper that stays mounted issues no request for it
\* when current, changeSpot and index.toString() are what they were,
\* whatever the wrapper's activity, child and fill; and when one of the
\* three changed, the wrapper is active and its reference resolved, the
\* render issues exactly one.
C14_MeasuresExactlyOnKeyChange ==
  [][\A w \in Wrappers :
       (lifecycle[w] = "mounted" /\ lifecycle'[w] = "mounted")
         => IF /\ current' = current
               /\ changeSpot' = changeSpot
               /\ IndexToString(index'[w]) = IndexToString(index[w])
              THEN CountOf(requests', w) = CountOf(requests, w)
              ELSE (checkIndex(index'[w], current') /\ childRef'[w] # NoNode)
                     => CountOf(requests', w) = CountOf(requests, w) + 1]_vars

\* C14 happens: an active wrapper that measured on its mount was rendered
\* again with a child that takes no reference: the keys are those of the
\* mount and the mount's request, still in flight, is the only one.
C14_Witness ==
  /\ lifecycle["w1"] = "mounted"
  /\ checkIndex(index["w1"], current)
  /\ children["w1"].type = "Memo"
  /\ childRef["w1"] = NoNode
  /\ deps["w1"] = EffectDeps(changeSpot, current, index["w1"])
  /\ activations["w1"] = 1
  /\ requests = <<[id |-> 1, w |-> "w1", cb |-> changeSpot]>>
  /\ pending = {1}

\* changeSpot was called for request id
Reported(id) == \E j \in 1..Len(spotCalls) : spotCalls[j].req = id

\* C15: a step after which a wrapper is active with a resolved reference
\* and before which it was not active (or not mounted) issues one request
\* for it, which is then in flight; and, the engine firing every callback,
\* every request in flight is eventually followed by its changeSpot call.
C15_ActivationEventuallyReported ==
  /\ [][\A w \in Wrappers :
          (/\ lifecycle'[w] = "mounted"
           /\ checkIndex(index'[w], current')
           /\ childRef'[w] # NoNode
           /\ ~(lifecycle[w] = "mounted" /\ checkIndex(index[w], current)))
            => /\ CountOf(requests', w) = CountOf(requests, w) + 1
               /\ \E id \in pending' \ pending : requests'[id].w = w]_vars
  /\ \A id \in 1..MaxRequests : (id \in pending) ~> Reported(id)

\* C15 happens: the wrapper was activated twice, both requests were
\* reported, and the tour has left the step.
C15_Witness ==
  /\ lifecycle["w1"] = "mounted"
  /\ current = Undefined
  /\ activations["w1"] = 2
  /\ Len(requests) = 2
  /\ pending = {}
  /\ Reported(1) /\ Reported(2)

C17_StaleCompletionStillReported ==
  [][\A id \in pending :
       (/\ id \notin pending'
        /\ lifecycle[requests[id].w] = "mounted"
        /\ ~checkIndex(index[requests[id].w], current))
         => /\ Len(spotCalls') = Len(spotCalls) + 1
            /\ spotCalls'[Len(spotCalls')].req = id
            /\ LET rect == completions'[Len(completions')].rect
               IN  spotCalls'[Len(spotCalls')].spot
                     = [x |-> rect[1], y |-> rect[2],
                        width |-> rect[3], height |-> rect[4]]]_vars

\* C17 happens: step 1 was active and then step 2, both wrappers measured
\* in that order, the reports arrived in the other order: the last
\* changeSpot call is the one of step 1 while step 2 is the active one.
C17_Witness ==
  /\ lifecycle = [w \in Wrappers |-> "mounted"]
  /\ current = Some(2)
  /\ Len(requests) = 2
  /\ requests[1].w = "w1" /\ requests[2].w = "w2"
  /\ Len(spotCalls) = 2
  /\ spotCalls[1].req = 2 /\ spotCalls[2].req = 1
  /\ ~checkIndex(index[requests[spotCalls[2].req].w], current)

\* C18: a render that gives a mounted wrapper an index array with the same
\* elements in another order, current and changeSpot being what they were,
\* the wrapper active and its reference resolved, issues one new request.
C18_ReorderedIndexMeasuresAgain ==
  [][\A w \in Wrappers :
       (/\ lifecycle[w] = "mounted" /\ lifecycle'[w] = "mounted"
        /\ IsArray(index[w]) /\ IsArray(index'[w])
        /\ index'[w] # index[w]
        /\ Members(index'[w][2]) = Members(index[w][2])
        /\ Len(index'[w][2]) = Len(index[w][2])
        /\ current' = current
        /\ changeSpot' = changeSpot
        /\ checkIndex(index'[w], current')
        /\ childRef'[w] # NoNode)
         => CountOf(requests', w) = CountOf(requests, w) + 1]_vars

\* C18 happens: the tour never left step 1 nor changed changeSpot, the
\* wrapper was activated once and, its index reordered to [2, 1], it has
\* issued a second request.
C18_Witness ==
  /\ lifecycle["w1"] = "mounted"
  /\ current = Some(1)
  /\ index["w1"] = ArrayIndex(<<2, 1>>)
  /\ childRef["w1"] # NoNode
  /\ activations["w1"] = 1
  /\ CountOf(requests, "w1") = 2
  /\ deps["w1"] = EffectDeps(changeSpot, current, index["w1"])

\* C19: every index, a number or an array, whose string form is the one of
\* a mounted wrapper's index gives checkIndex the same result for the
\* active step; and a render that replaces the index by another of the
\* same string form, current and changeSpot being what they were, does not
\* run the effect, issues no request and leaves the wrapper as active as
\* it was.
C19_EqualStringsEqualActivity ==
  /\ [](\A w \in instances :
          lifecycle[w] = "mounted"
            => \A other \in WideIndexes :
                 IndexToString(other) = IndexToString(index[w])
                   => checkIndex(other, current) = checkIndex(index[w], current))
  /\ [][\A w \in instances :
          (/\ lifecycle[w] = "mounted" /\ lifecycle'[w] = "mounted"
           /\ index'[w] # index[w]
           /\ IndexToString(index'[w]) = IndexToString(index[w])
           /\ current' = current
           /\ changeSpot' = changeSpot)
            => /\ deps'[w] = deps[w]
               /\ CountOf(requests', w) = CountOf(requests, w)
               /\ checkIndex(index'[w], current')
                    = checkIndex(index[w], current)]_vars

\* C19 happens: a wrapper is mounted with index [2] under current = 2;
\* the index 2 has the same string form; the wrapper is active and has
\* issued its one request.
C19_Witness ==
  /\ lifecycle["w1"] = "mounted"
  /\ index["w1"] = ArrayIndex(<<2>>)
  /\ current = Some(2)
  /\ IndexToString(NumberIndex(2)) = IndexToString(index["w1"])
  /\ checkIndex(index["w1"], current)
  /\ deps["w1"] = EffectDeps(changeSpot, current, NumberIndex(2))
  /\ Len(requests) = 1

====
